---- MODULE Spec2Model ----
(***************************************************************************)
(* bevy-intl: the I18n resource (translation store and language selection), *)
(* the I18nPartial namespace view opened by I18n::translation, and the      *)
(* accessors t, t_with_arg, t_with_plural, t_with_gender and                *)
(* t_with_gender_and_arg with their placeholder substitution.               *)
(*                                                                         *)
(* A Rust String is a sequence of one-character strings, so that the regex  *)
(* split and the re-join of replace_placeholders are computed, not assumed. *)
(* An Option<T> is the record None or Some(v).  A HashMap is a function on  *)
(* its key set.                                                             *)
(***************************************************************************)
EXTENDS Integers, Sequences, FiniteSets, TLC

VARIABLES i18n, views, call, ret

vars == <<i18n, views, call, ret>>

\* ---------------------------------------------------------------- bounds

\* Largest count passed to t_with_plural.
MaxCount == 12

\* Largest number of arguments passed to an accessor taking args.
MaxArgs == 3

\* Largest number of pieces a sampled template is concatenated from.
MaxPieces == 3

\* Largest number of variant keys over the two tables of a sampled view.
MaxVariants == 2

\* Largest number of I18nPartial views alive at once.
MaxViews == 2

\* Largest number of frames the call stack of a load holds.
MaxStack == 5

\* Largest number of entries of a nested object of a raw tree.
MaxNested == 2

\* ---------------------------------------------------------------- strings

MissingTranslation == <<"M", "i", "s", "s", "i", "n", "g", " ", "t", "r", "a", "n", "s", "l", "a", "t", "i", "o", "n">>

MissingGenderTranslation == <<"M", "i", "s", "s", "i", "n", "g", " ", "g", "e", "n", "d", "e", "r", " ", "t", "r", "a", "n", "s", "l", "a", "t", "i", "o", "n">>

MissingPluralTranslation == <<"M", "i", "s", "s", "i", "n", "g", " ", "p", "l", "u", "r", "a", "l", " ", "t", "r", "a", "n", "s", "l", "a", "t", "i", "o", "n">>

TranslationNotFound == <<"T", "r", "a", "n", "s", "l", "a", "t", "i", "o", "n", " ", "n", "o", "t", " ", "f", "o", "u", "n", "d">>

TranslationError == <<"T", "r", "a", "n", "s", "l", "a", "t", "i", "o", "n", " ", "E", "r", "r", "o", "r">>

zero == <<"z", "e", "r", "o">>

one == <<"o", "n", "e">>

two == <<"t", "w", "o">>

few == <<"f", "e", "w">>

many == <<"m", "a", "n", "y">>

other == <<"o", "t", "h", "e", "r">>

\* ---------------------------------------------------------------- Option, HashMap

None == [some |-> FALSE]

Some(x) == [some |-> TRUE, v |-> x]

\* HashMap::get
get(m, k) == IF k \in DOMAIN m THEN Some(m[k]) ELSE None

\* HashMap::new
EmptyMap == <<>>

\* SectionValue::Text(s)
Text(s) == [tag |-> "Text", s |-> s]

\* SectionValue::Map(m)
Map(m) == [tag |-> "Map", m |-> m]

\* ---------------------------------------------------------------- ARG_RE

Digit == <<"0", "1", "2", "3", "4", "5", "6", "7", "8", "9">>

Lower == {"a", "b", "c", "d", "e", "f", "g", "h", "i", "j", "k", "l", "m",
          "n", "o", "p", "q", "r", "s", "t", "u", "v", "w", "x", "y", "z"}

Upper == {"A", "B", "C", "D", "E", "F", "G", "H", "I", "J", "K", "L", "M",
          "N", "O", "P", "Q", "R", "S", "T", "U", "V", "W", "X", "Y", "Z"}

WordChars == Lower \cup Upper \cup {Digit[d] : d \in 1..10} \cup {"_"}

\* The regex class \w over the characters the model uses.
WordChar(c) == c \in WordChars

\* The end of the greedy run \w* that starts at position j of s: the first
\* position at or after j that holds no word character (Len(s) + 1 if none).
RECURSIVE WordRunEnd(_, _)
WordRunEnd(s, j) ==
    IF j <= Len(s) /\ WordChar(s[j]) THEN WordRunEnd(s, j + 1) ELSE j

\* ARG_RE = \{\{(\w*)\}\} anchored at position i of s: Some(e), e the first
\* position after the match, or None.  "}" is no word character, so the
\* greedy run never has to give characters back.
ARG_RE_at(s, i) ==
    IF i + 1 <= Len(s) /\ s[i] = "{" /\ s[i + 1] = "{"
    THEN LET j == WordRunEnd(s, i + 2)
         IN  IF j + 1 <= Len(s) /\ s[j] = "}" /\ s[j + 1] = "}"
             THEN Some(j + 2)
             ELSE None
    ELSE None

\* Regex::split: the text between successive leftmost non-overlapping matches,
\* from position i on, the running part having started at position from.
\* A match at the very end leaves a trailing empty part.
RECURSIVE ARG_RE_split_from(_, _, _)
ARG_RE_split_from(s, from, i) ==
    IF i > Len(s)
    THEN << SubSeq(s, from, Len(s)) >>
    ELSE LET m == ARG_RE_at(s, i)
         IN  IF m.some
             THEN << SubSeq(s, from, i - 1) >> \o ARG_RE_split_from(s, m.v, m.v)
             ELSE ARG_RE_split_from(s, from, i + 1)

ARG_RE_split(s) == ARG_RE_split_from(s, 1, 1)

\* ---------------------------------------------------------------- replace_placeholders

\* The loop of replace_placeholders from part i on: push the part, then the
\* i-th argument when there is one (i is 1-based here: i <= Len(args)).
RECURSIVE replace_loop(_, _, _)
replace_loop(parts, args, i) ==
    IF i > Len(parts)
    THEN <<>>
    ELSE parts[i] \o (IF i <= Len(args) THEN args[i] ELSE <<>>)
                  \o replace_loop(parts, args, i + 1)

\* The same loop with the bound test off by one: the last argument is never used.
replace_placeholders_short(template, args) ==
    LET parts == ARG_RE_split(template)
        RECURSIVE loop(_)
        loop(i) == IF i > Len(parts) THEN <<>>
                   ELSE parts[i] \o (IF i + 1 <= Len(args) THEN args[i] ELSE <<>>) \o loop(i + 1)
    IN  loop(1)

\* I18nPartial::replace_placeholders
replace_placeholders(template, args) ==
    replace_loop(ARG_RE_split(template), args, 1)

\* usize::to_string: the decimal numeral of n.
RECURSIVE to_string(_)
to_string(n) ==
    IF n < 10 THEN << Digit[n + 1] >>
    ELSE to_string(n \div 10) \o << Digit[(n % 10) + 1] >>

\* ---------------------------------------------------------------- I18nPartial

\* Option::unwrap_or / unwrap_or_else
unwrap_or(o, d) == IF o.some THEN o.v ELSE d

\* The closure of get_text_value: the string of a Text value, None for a Map.
text_of(o) == IF o.some /\ o.v.tag = "Text" THEN Some(o.v.s) ELSE None

\* The closure of get_nested_value: the entry of a Map value, None for a Text.
nested_of(o, nested_key) ==
    IF o.some /\ o.v.tag = "Map" THEN get(o.v.m, nested_key) ELSE None

\* get_text_value reading the fallback table first.
get_text_value_fallback_first(self, key) ==
    LET fb == text_of(get(self.fallback_traduction, key))
    IN  IF fb.some THEN fb ELSE text_of(get(self.file_traductions, key))

\* I18nPartial::get_text_value
get_text_value(self, key) ==
    LET cur == text_of(get(self.file_traductions, key))
    IN  IF cur.some THEN cur ELSE text_of(get(self.fallback_traduction, key))

\* get_nested_value that stops at the current table once it holds the key as a Map.
get_nested_value_current_map(self, key, nested_key) ==
    LET cur == get(self.file_traductions, key)
    IN  IF cur.some /\ cur.v.tag = "Map" THEN get(cur.v.m, nested_key)
        ELSE nested_of(get(self.fallback_traduction, key), nested_key)

\* I18nPartial::get_nested_value
get_nested_value(self, key, nested_key) ==
    LET cur == nested_of(get(self.file_traductions, key), nested_key)
    IN  IF cur.some THEN cur
        ELSE nested_of(get(self.fallback_traduction, key), nested_key)

\* I18nPartial::t
t(self, key) == unwrap_or(get_text_value(self, key), MissingTranslation)

\* I18nPartial::t_with_arg
t_with_arg(self, key, args) == replace_placeholders(t(self, key), args)

\* The match of t_with_plural with the ranges of "few" taken exclusive of 10.
plural_key_exclusive(count) ==
    CASE count = 0 -> zero
      [] count = 1 -> one
      [] count = 2 -> two
      [] count >= 3 /\ count < 10 -> few
      [] OTHER -> many

\* The match of t_with_plural: the plural category of a count.
plural_key(count) ==
    CASE count = 0 -> zero
      [] count = 1 -> one
      [] count = 2 -> two
      [] count >= 3 /\ count <= 10 -> few
      [] OTHER -> many

\* The third step's key with the test on the count lost.
basic_key_other(count) == other

\* The third step's key of t_with_plural.
basic_key(count) == IF count = 1 THEN one ELSE other

\* t_with_plural with the category tried before the exact count.
t_with_plural_category_first(self, key, count) ==
    LET step1 == get_nested_value(self, key, plural_key(count))
        step2 == get_nested_value(self, key, to_string(count))
    IN  IF step1.some THEN replace_placeholders(step1.v, << to_string(count) >>)
        ELSE IF step2.some THEN replace_placeholders(step2.v, << to_string(count) >>)
        ELSE MissingPluralTranslation

\* t_with_plural running the whole cascade on the current table, then on the
\* fallback table.
t_with_plural_table_first(self, key, count) ==
    LET count_str == to_string(count)
        steps == << count_str, plural_key(count), basic_key(count), many >>
        hits(table) == { n \in 1..4 : nested_of(get(table, key), steps[n]).some }
        first(table) == nested_of(get(table, key),
                                  steps[CHOOSE n \in hits(table) : \A o \in hits(table) : n <= o]).v
    IN  IF hits(self.file_traductions) # {}
        THEN replace_placeholders(first(self.file_traductions), << count_str >>)
        ELSE IF hits(self.fallback_traduction) # {}
        THEN replace_placeholders(first(self.fallback_traduction), << count_str >>)
        ELSE MissingPluralTranslation

\* I18nPartial::t_with_plural
t_with_plural(self, key, count) ==
    LET count_str == to_string(count)
        step1 == get_nested_value(self, key, count_str)
        step2 == get_nested_value(self, key, plural_key(count))
        step3 == get_nested_value(self, key, basic_key(count))
        step4 == get_nested_value(self, key, many)
    IN  IF step1.some THEN replace_placeholders(step1.v, << count_str >>)
        ELSE IF step2.some THEN replace_placeholders(step2.v, << count_str >>)
        ELSE IF step3.some THEN replace_placeholders(step3.v, << count_str >>)
        ELSE IF step4.some THEN replace_placeholders(step4.v, << count_str >>)
        ELSE MissingPluralTranslation

\* I18nPartial::t_with_gender
t_with_gender(self, key, gender) ==
    unwrap_or(get_nested_value(self, key, gender), MissingGenderTranslation)

\* I18nPartial::t_with_gender_and_arg
t_with_gender_and_arg(self, key, gender, args) ==
    replace_placeholders(t_with_gender(self, key, gender), args)

\* ---------------------------------------------------------------- I18n

\* The error_map of I18n::translation.
error_map == [k \in {"error"} |-> Text(TranslationNotFound)]

\* self.translations.langs.get(lang).and_then(|lang| lang.get(translation_file))
lookup_file(self, lang, translation_file) ==
    LET l == get(self.translations.langs, lang)
    IN  IF l.some THEN get(l.v, translation_file) ELSE None

\* I18n::translation reading the fallback language on both sides.
translation_pasted(self, translation_file) ==
    [file_traductions    |->
         unwrap_or(lookup_file(self, self.fallback_lang, translation_file), error_map),
     fallback_traduction |->
         unwrap_or(lookup_file(self, self.fallback_lang, translation_file), error_map)]

\* I18n::translation with the fallback table following the current one.
translation_coupled(self, translation_file) ==
    LET cur == lookup_file(self, self.current_lang, translation_file)
        fb  == lookup_file(self, self.fallback_lang, translation_file)
    IN  [file_traductions    |-> unwrap_or(cur, error_map),
         fallback_traduction |-> IF cur.some THEN unwrap_or(fb, error_map) ELSE error_map]

\* I18n::translation
translation(self, translation_file) ==
    [file_traductions    |->
         unwrap_or(lookup_file(self, self.current_lang, translation_file), error_map),
     fallback_traduction |->
         unwrap_or(lookup_file(self, self.fallback_lang, translation_file), error_map)]

\* I18n::get_lang
get_lang(self) == self.current_lang

\* I18n::available_languages
available_languages(self) == self.locale_folders_list

\* Vec::contains
contains(list, x) == \E n \in 1..Len(list) : list[n] = x

\* ---------------------------------------------------------------- calls

\* The record of the last call: which operation, on which view, with what.
Call(op, view, key, text, args, count) ==
    [op |-> op, view |-> view, key |-> key, text |-> text, args |-> args, count |-> count]

NoCall == Call("none", 0, "", <<>>, <<>>, 0)

\* ---------------------------------------------------------------- sampled inputs

\* All sequences over S of length at most n.
RECURSIVE SeqsUpTo(_, _)
SeqsUpTo(S, n) ==
    IF n = 0 THEN { <<>> }
    ELSE LET shorter == SeqsUpTo(S, n - 1)
         IN  shorter \cup { Append(q, x) : q \in shorter, x \in S }

RECURSIVE Flatten(_)
Flatten(ss) == IF ss = <<>> THEN <<>> ELSE Head(ss) \o Flatten(Tail(ss))

\* Pieces templates are concatenated from: two placeholders, a near miss whose
\* braces hold a non-word character, a literal, and stray braces.
Pieces == { <<"{", "{", "a", "}", "}">>, <<"{", "{", "}", "}">>,
            <<"{", "{", "-", "}", "}">>, <<"x">>, <<"{">>, <<"}">> }

Templates == { Flatten(ps) : ps \in SeqsUpTo(Pieces, MaxPieces) }

ArgValues == { <<"y">>, <<"B", "o", "b">> }

ArgLists == SeqsUpTo(ArgValues, MaxArgs)

\* ---------------------------------------------------------------- sampled views

female == <<"f", "e", "m", "a", "l", "e">>

male == <<"m", "a", "l", "e">>

HelloName == <<"H", "e", "l", "l", "o", " ", "{", "{", "n", "a", "m", "e", "}", "}">>

Bonjour == <<"B", "o", "n", "j", "o", "u", "r">>

\* Counts whose numeral occurs as a variant key: one in each plural category
\* but "two", and both ends of "few".
ExactCounts == {0, 1, 3, 10, 11}

VariantKeys == { to_string(n) : n \in ExactCounts } \cup {zero, one, two, few, many, other, female}

Genders == {female, male}

\* The string stored under a variant key: it names the table and the key, and
\* in the current-language table it ends in a placeholder.
VariantText(side, vk) ==
    << side, ":" >> \o vk \o
    (IF side = "c" THEN << " ", "{", "{", "n", "}", "}" >> ELSE <<>>)

\* What a table may hold under the sampled key: nothing, a Text or a Map with
\* at most n variant keys.
SideValues(side, n) ==
    { None } \cup { Some(Text(x)) : x \in {HelloName, Bonjour} }
    \cup { Some(Map([vk \in ks |-> VariantText(side, vk)])) :
             ks \in { k \in SUBSET VariantKeys : Cardinality(k) <= n } }

VariantCount(o) == IF o.some /\ o.v.tag = "Map" THEN Cardinality(DOMAIN o.v.m) ELSE 0

\* The namespace table holding the sampled key with value o, or nothing.
TableOf(o) == IF o.some THEN [k \in {"items"} |-> o.v] ELSE EmptyMap

QueryKeys == {"items", "nokey"}

QueryArgs == SeqsUpTo({ <<"y">> }, MaxArgs)

\* ---------------------------------------------------------------- accessor calls

T(i, key) ==
    /\ i \in 1..Len(views)
    /\ call' = Call("t", i, key, <<>>, <<>>, 0)
    /\ ret' = t(views[i], key)
    /\ UNCHANGED <<i18n, views>>

TWithArg(i, key, args) ==
    /\ i \in 1..Len(views)
    /\ call' = Call("t_with_arg", i, key, <<>>, args, 0)
    /\ ret' = t_with_arg(views[i], key, args)
    /\ UNCHANGED <<i18n, views>>

TWithPlural(i, key, count) ==
    /\ i \in 1..Len(views)
    /\ call' = Call("t_with_plural", i, key, <<>>, <<>>, count)
    /\ ret' = t_with_plural(views[i], key, count)
    /\ UNCHANGED <<i18n, views>>

TWithGender(i, key, gender) ==
    /\ i \in 1..Len(views)
    /\ call' = Call("t_with_gender", i, key, gender, <<>>, 0)
    /\ ret' = t_with_gender(views[i], key, gender)
    /\ UNCHANGED <<i18n, views>>

TWithGenderAndArg(i, key, gender, args) ==
    /\ i \in 1..Len(views)
    /\ call' = Call("t_with_gender_and_arg", i, key, gender, args, 0)
    /\ ret' = t_with_gender_and_arg(views[i], key, gender, args)
    /\ UNCHANGED <<i18n, views>>

\* ---------------------------------------------------------------- the resolver on sampled views

\* An I18n whose current language "fr" and fallback language "en" hold the
\* sampled tables as namespace "ui", and the view opened on "ui".
InitResolver ==
    \E cur \in SideValues("c", MaxVariants), fb \in SideValues("f", MaxVariants) :
        /\ VariantCount(cur) + VariantCount(fb) <= MaxVariants
        /\ i18n = Some([translations |->
                            [langs |-> [l \in {"en", "fr"} |->
                                [f \in {"ui"} |-> IF l = "fr" THEN TableOf(cur) ELSE TableOf(fb)]]],
                        current_lang |-> "fr",
                        locale_folders_list |-> <<"en", "fr">>,
                        fallback_lang |-> "en"])
        /\ views = << translation(i18n.v, "ui") >>
        /\ call = NoCall
        /\ ret = <<>>

\* One accessor call on each sampled view: the accessors change nothing they
\* read, so a second call reaches no state the first does not.
NextResolver ==
    /\ call = NoCall
    /\ \/ \E key \in QueryKeys : T(1, key)
       \/ \E key \in QueryKeys, args \in QueryArgs : TWithArg(1, key, args)
       \/ \E key \in QueryKeys, count \in 0..MaxCount : TWithPlural(1, key, count)
       \/ \E key \in QueryKeys, gender \in Genders : TWithGender(1, key, gender)
       \/ \E key \in QueryKeys, gender \in Genders, args \in QueryArgs :
              TWithGenderAndArg(1, key, gender, args)

SpecResolver == InitResolver /\ [][NextResolver]_vars

\* ---------------------------------------------------------------- loaders

Ok(x) == [ok |-> TRUE, v |-> x]

Err == [ok |-> FALSE]

\* langs.keys().cloned().collect(): the keys of a HashMap in any order.
KeyOrders(m) ==
    { q \in SeqsUpTo(DOMAIN m, Cardinality(DOMAIN m)) :
        Len(q) = Cardinality(DOMAIN m) /\ \A a, b \in 1..Len(q) : a # b => q[a] # q[b] }

\* The Ok arm of both loaders: the loaded tables with their language list.
loaded(langs) ==
    { [translations |-> [langs |-> langs], locale_folders_list |-> q] : q \in KeyOrders(langs) }

\* create_error_translations with the text of the view's error_map.
create_error_translations_not_found ==
    [translations |->
         [langs |-> [l \in {"en"} |-> [f \in {"error"} |-> [k \in {"error"} |-> Text(TranslationNotFound)]]]],
     locale_folders_list |-> <<"en">>]

\* create_error_translations
create_error_translations ==
    [translations |->
         [langs |-> [l \in {"en"} |-> [f \in {"error"} |-> [k \in {"error"} |-> Text(TranslationError)]]]],
     locale_folders_list |-> <<"en">>]

\* The environment of a load: the build target, what load_bundled_data gives
\* and what load_translation_from_fs gives for each folder.
\* load_filesystem_translations (both targets) and load_bundled_translations:
\* the set of results the load may give.
RECURSIVE load_filesystem_translations(_, _)
RECURSIVE load_bundled_translations(_)
load_filesystem_translations(env, messages_folder) ==
    IF env.wasm32
    THEN load_bundled_translations(env)
    ELSE LET r == env.fs[messages_folder]
         IN  IF r.ok THEN loaded(r.v) ELSE { create_error_translations }

load_bundled_translations(env) ==
    LET r == env.bundled
    IN  IF r.ok
        THEN IF r.v = EmptyMap
             THEN load_filesystem_translations(env, "messages")
             ELSE loaded(r.v)
        ELSE { create_error_translations }

\* The loads that never return: on wasm32 each loader calls the other when
\* the bundled data is empty.
Diverges(env) == env.wasm32 /\ env.bundled.ok /\ env.bundled.v = EmptyMap

\* impl FromWorld for I18n: the resources from_world may build.
from_world(config, env) ==
    { [translations |-> l.translations,
       current_lang |-> config.default_lang,
       locale_folders_list |-> l.locale_folders_list,
       fallback_lang |-> config.fallback_lang] :
        l \in IF config.use_bundled_translations
              THEN load_bundled_translations(env)
              ELSE load_filesystem_translations(env, config.messages_folder) }

\* ---------------------------------------------------------------- sampled stores

OneItem == <<"O", "n", "e", " ", "i", "t", "e", "m">>

NItems == <<"{", "{", "}", "}", " ", "i", "t", "e", "m", "s">>

Hi == <<"H", "i">>

Bob == <<"B", "o", "b">>

\* en.ui = {greeting, items}, fr.menu = {greeting}: fr has no "ui", en no "menu".
ScenarioLangs ==
    [l \in {"en", "fr"} |->
        IF l = "en"
        THEN [f \in {"ui"} |->
                 [k \in {"greeting", "items"} |->
                     IF k = "greeting" THEN Text(HelloName)
                     ELSE Map([vk \in {one, many} |-> IF vk = one THEN OneItem ELSE NItems])]]
        ELSE [f \in {"menu"} |-> [k \in {"greeting"} |-> Text(Bonjour)]]]

\* A single language: en.ui = {greeting}.
EnglishLangs == [l \in {"en"} |-> [f \in {"ui"} |-> [k \in {"greeting"} |-> Text(Hi)]]]

Codes == {"en", "fr"}

Files == {"ui", "error"}

Folders == {"messages", "locales"}

SystemKeys == {"greeting", "items", "error"}

SystemCounts == {1, 7}

Configs ==
    [use_bundled_translations : BOOLEAN, messages_folder : Folders,
     default_lang : Codes, fallback_lang : Codes]

Envs ==
    [wasm32 : BOOLEAN,
     bundled : {Err, Ok(EmptyMap), Ok(ScenarioLangs)},
     fs : [Folders -> {Err, Ok(EnglishLangs), Ok(ScenarioLangs)}]]

\* ---------------------------------------------------------------- language switching

\* I18n::set_lang without the membership test.
set_lang_unchecked(self, locale) == [self EXCEPT !.current_lang = locale]

\* I18n::set_lang
set_lang(self, locale) ==
    IF ~contains(self.locale_folders_list, locale)
    THEN self
    ELSE [self EXCEPT !.current_lang = locale]

\* The body of App::set_lang_i18n on the I18n resource.
set_lang_i18n(self, locale) ==
    IF ~contains(self.locale_folders_list, locale)
    THEN self
    ELSE [self EXCEPT !.current_lang = locale]

\* set_fallback_lang writing the current language, as set_lang_i18n does.
set_fallback_lang_pasted(self, locale) ==
    IF ~contains(self.locale_folders_list, locale)
    THEN self
    ELSE [self EXCEPT !.current_lang = locale]

\* The body of App::set_fallback_lang on the I18n resource.
set_fallback_lang(self, locale) ==
    IF ~contains(self.locale_folders_list, locale)
    THEN self
    ELSE [self EXCEPT !.fallback_lang = locale]

\* A system holding ResMut<I18n> calls set_lang.
SetLang(locale) ==
    /\ i18n.some
    /\ i18n' = Some(set_lang(i18n.v, locale))
    /\ call' = Call("set_lang", 0, locale, <<>>, <<>>, 0)
    /\ ret' = <<>>
    /\ UNCHANGED views

\* App::set_lang_i18n: nothing happens when the world holds no I18n.
SetLangI18n(locale) ==
    /\ i18n' = IF i18n.some THEN Some(set_lang_i18n(i18n.v, locale)) ELSE i18n
    /\ call' = Call("set_lang_i18n", 0, locale, <<>>, <<>>, 0)
    /\ ret' = <<>>
    /\ UNCHANGED views

\* App::set_fallback_lang: nothing happens when the world holds no I18n.
SetFallbackLang(locale) ==
    /\ i18n' = IF i18n.some THEN Some(set_fallback_lang(i18n.v, locale)) ELSE i18n
    /\ call' = Call("set_fallback_lang", 0, locale, <<>>, <<>>, 0)
    /\ ret' = <<>>
    /\ UNCHANGED views

\* A system holding Res<I18n> opens a view on a translation file.
Translation(translation_file) ==
    /\ i18n.some
    /\ Len(views) < MaxViews
    /\ views' = Append(views, translation(i18n.v, translation_file))
    /\ call' = Call("translation", Len(views) + 1, translation_file, <<>>, <<>>, 0)
    /\ ret' = <<>>
    /\ UNCHANGED i18n

\* ---------------------------------------------------------------- the system

\* The world after App construction: without the plugin it holds no I18n, with
\* it the I18n that from_world built from the plugin's config.
Init ==
    /\ \/ i18n = None
       \/ \E config \in Configs, env \in Envs :
              /\ ~Diverges(env)
              /\ \E r \in from_world(config, env) : i18n = Some(r)
    /\ views = <<>>
    /\ call = NoCall
    /\ ret = <<>>

Next ==
    \/ \E locale \in Codes : SetLang(locale)
    \/ \E locale \in Codes : SetLangI18n(locale)
    \/ \E locale \in Codes : SetFallbackLang(locale)
    \/ \E file \in Files : Translation(file)
    \/ \E i \in 1..MaxViews, key \in SystemKeys : T(i, key)
    \/ \E i \in 1..MaxViews, key \in SystemKeys : TWithArg(i, key, << Bob >>)
    \/ \E i \in 1..MaxViews, count \in SystemCounts : TWithPlural(i, "items", count)
    \/ \E i \in 1..MaxViews : TWithGender(i, "items", female)
    \/ \E i \in 1..MaxViews : TWithGenderAndArg(i, "items", female, << Bob >>)

Spec == Init /\ [][Next]_vars

\* ---------------------------------------------------------------- the load, call by call

\* A frame of the call stack: the function and its messages_folder argument.
Frame(fn, messages_folder) == [fn |-> fn, messages_folder |-> messages_folder]

\* The from_world call: its config, the environment, the stack of the calls
\* that have not returned, and whether it runs, has returned or has overflowed
\* the stack.
LoadCall(config, env, stack, status) ==
    [op |-> "from_world", config |-> config, env |-> env, stack |-> stack, status |-> status]

Top == call.stack[Len(call.stack)]

Running(fn) == call.op = "from_world" /\ call.status = "running" /\ Top.fn = fn

\* A call made as the last thing of the running function: a new frame on the
\* stack, or no room for one; or, compiled as a jump, the caller's frame reused.
Enter(frame) ==
    /\ \/ /\ Len(call.stack) < MaxStack
          /\ call' = [call EXCEPT !.stack = Append(@, frame)]
       \/ /\ Len(call.stack) = MaxStack
          /\ call' = [call EXCEPT !.status = "overflow"]
       \/ /\ Len(call.stack) > 1
          /\ call' = [call EXCEPT !.stack = Append(SubSeq(@, 1, Len(@) - 1), frame)]
    /\ UNCHANGED <<i18n, views, ret>>

\* A loader returns l: every loader frame hands it up unchanged and
\* from_world builds the resource from it and the config.
Return(l) ==
    /\ i18n' = Some([translations |-> l.translations,
                     current_lang |-> call.config.default_lang,
                     locale_folders_list |-> l.locale_folders_list,
                     fallback_lang |-> call.config.fallback_lang])
    /\ call' = [call EXCEPT !.stack = <<>>, !.status = "returned"]
    /\ UNCHANGED <<views, ret>>

\* from_world selects the loader.
FromWorld ==
    /\ Running("from_world")
    /\ IF call.config.use_bundled_translations
       THEN Enter(Frame("load_bundled_translations", ""))
       ELSE Enter(Frame("load_filesystem_translations", call.config.messages_folder))

\* load_filesystem_translations, not wasm32.
LoadFilesystem ==
    /\ Running("load_filesystem_translations")
    /\ ~call.env.wasm32
    /\ LET r == call.env.fs[Top.messages_folder]
       IN  IF r.ok THEN \E l \in loaded(r.v) : Return(l)
           ELSE Return(create_error_translations)

\* load_filesystem_translations, wasm32.
LoadFilesystemWasm ==
    /\ Running("load_filesystem_translations")
    /\ call.env.wasm32
    /\ Enter(Frame("load_bundled_translations", ""))

\* load_bundled_translations
LoadBundled ==
    /\ Running("load_bundled_translations")
    /\ LET r == call.env.bundled
       IN  IF r.ok
           THEN IF r.v = EmptyMap
                THEN Enter(Frame("load_filesystem_translations", "messages"))
                ELSE \E l \in loaded(r.v) : Return(l)
           ELSE Return(create_error_translations)

\* The world holds the plugin's config and no I18n yet; init_resource calls
\* from_world.
InitLoad ==
    /\ i18n = None
    /\ views = <<>>
    /\ \E config \in Configs, env \in Envs :
           call = LoadCall(config, env, << Frame("from_world", "") >>, "running")
    /\ ret = <<>>

NextLoad == FromWorld \/ LoadFilesystem \/ LoadFilesystemWasm \/ LoadBundled

SpecLoad == InitLoad /\ [][NextLoad]_vars

\* ---------------------------------------------------------------- parsing the raw trees

\* serde_json::Value
JNull == [kind |-> "null"]

JBool(b) == [kind |-> "bool", b |-> b]

JNumber(n) == [kind |-> "number", n |-> n]

JString(s) == [kind |-> "string", s |-> s]

JArray(a) == [kind |-> "array", a |-> a]

JObject(m) == [kind |-> "object", m |-> m]

\* Value::as_str
as_str(v) == IF v.kind = "string" THEN Some(v.s) ELSE None

\* Value::as_object
as_object(v) == IF v.kind = "object" THEN Some(v.m) ELSE None

\* The nested_map of a nested object: its entries whose value is a string.
nested_map_of(nested) ==
    [nested_key \in { x \in DOMAIN nested : as_str(nested[x]).some } |->
        as_str(nested[nested_key]).v]

\* section_value_of that drops an object with a non-string entry whole.
section_value_of_strict(val) ==
    IF as_str(val).some THEN Some(Text(as_str(val).v))
    ELSE IF as_object(val).some /\ \A x \in DOMAIN val.m : as_str(val.m[x]).some
         THEN Some(Map(nested_map_of(as_object(val).v)))
         ELSE None

\* The section_value of one entry of parse_translation_value; None is its
\* `continue`.
section_value_of(val) ==
    IF as_str(val).some THEN Some(Text(as_str(val).v))
    ELSE IF as_object(val).some THEN Some(Map(nested_map_of(as_object(val).v)))
         ELSE None

\* The section_map parse_translation_value builds from a file's value.
section_map_of(sections_value) ==
    LET sections_obj == as_object(sections_value)
    IN  IF sections_obj.some
        THEN [key \in { x \in DOMAIN sections_obj.v : section_value_of(sections_obj.v[x]).some } |->
                 section_value_of(sections_obj.v[key]).v]
        ELSE EmptyMap

\* The file_map parse_translation_value builds from a language's value.
file_map_of(files_value) ==
    LET files_obj == as_object(files_value)
    IN  IF files_obj.some
        THEN [file_name \in DOMAIN files_obj.v |-> section_map_of(files_obj.v[file_name])]
        ELSE EmptyMap

parse_translation_value(value) ==
    LET langs_obj == as_object(value)
    IN  Ok(IF langs_obj.some
           THEN [lang_code \in DOMAIN langs_obj.v |-> file_map_of(langs_obj.v[lang_code])]
           ELSE EmptyMap)

\* load_bundled_data; parsed is the outcome of serde_json::from_str on the
\* bundled text.
load_bundled_data(parsed) ==
    IF ~parsed.ok THEN Err
    ELSE IF ~(as_object(parsed.v).some /\ as_object(parsed.v).v # EmptyMap)
         THEN Ok(EmptyMap)
         ELSE parse_translation_value(parsed.v)

\* The section_value of one entry of a file, in load_translation_from_fs.
fs_section_value_of(value) ==
    IF as_str(value).some THEN Some(Text(as_str(value).v))
    ELSE IF as_object(value).some THEN Some(Map(nested_map_of(as_object(value).v)))
         ELSE None

\* The section_map load_translation_from_fs builds from a file's json.
fs_section_map_of(json) ==
    LET obj == as_object(json)
    IN  IF obj.some
        THEN [key \in { x \in DOMAIN obj.v : fs_section_value_of(obj.v[x]).some } |->
                 fs_section_value_of(obj.v[key]).v]
        ELSE EmptyMap

\* load_translation_from_fs; dir is Err when the folder is missing or cannot
\* be read, else the .json files of its language folders, each with the
\* outcome of reading and parsing it.
load_translation_from_fs(dir) ==
    IF ~dir.ok THEN Err
    ELSE IF \E l \in DOMAIN dir.v : \E f \in DOMAIN dir.v[l] : ~dir.v[l][f].ok THEN Err
         ELSE Ok([lang_code \in DOMAIN dir.v |->
                     [file_name \in DOMAIN dir.v[lang_code] |->
                         fs_section_map_of(dir.v[lang_code][file_name].v)]])

\* The maps from a subset of K to V.
Maps(K, V) == UNION { [S -> V] : S \in SUBSET K }

NestedKeyList == << one, other, many >>

NestedKeys == { NestedKeyList[n] : n \in 1..MaxNested }

NestedValues == { JString(OneItem), JNumber(1), JNull, JObject(EmptyMap) }

\* The shapes of a leaf: strings, the four shapes that are neither string nor
\* object, and nested objects with string and non-string entries.
RawLeaves ==
    { JString(Hi), JString(<<>>), JNumber(7), JBool(TRUE), JNull, JArray(<< JString(Hi) >>) }
        \cup { JObject(m) : m \in Maps(NestedKeys, NestedValues) }

RawSections == { JObject(m) : m \in Maps({"greeting", "items"}, RawLeaves) } \cup { JNull, JString(Hi) }

RawFiles == { JObject(m) : m \in Maps({"ui"}, RawSections) } \cup { JNumber(7) }

RawTrees == { JObject(m) : m \in Maps({"en"}, RawFiles) } \cup { JArray(<<>>) }

\* The raw tree is one a folder can hold: language folders holding files.
IsFolder(value) ==
    /\ as_object(value).some
    /\ \A l \in DOMAIN value.m : as_object(value.m[l]).some

\* The (language, file) pairs of a folder.
FilesOf(value) ==
    UNION { { << l, f >> : f \in DOMAIN value.m[l].m } : l \in DOMAIN value.m }

\* The parse of a raw tree: value is the tree, read whether every read and
\* every serde_json::from_str on the way succeeded.
ParseCall(op, value, read) == [op |-> op, value |-> value, read |-> read]

ParseTranslationValue ==
    /\ call.op = "input"
    /\ call' = ParseCall("parse_translation_value", call.value, TRUE)
    /\ ret' = parse_translation_value(call.value)
    /\ UNCHANGED <<i18n, views>>

LoadBundledData ==
    /\ call.op = "input"
    /\ \E parsed \in {Err, Ok(call.value)} :
           /\ call' = ParseCall("load_bundled_data", call.value, parsed.ok)
           /\ ret' = load_bundled_data(parsed)
    /\ UNCHANGED <<i18n, views>>

LoadTranslationFromFs ==
    /\ call.op = "input"
    /\ IsFolder(call.value)
    /\ \E exists \in BOOLEAN, bad \in SUBSET FilesOf(call.value) :
           LET dir == IF exists
                      THEN Ok([l \in DOMAIN call.value.m |->
                                  [f \in DOMAIN call.value.m[l].m |->
                                      IF << l, f >> \in bad THEN Err
                                      ELSE Ok(call.value.m[l].m[f])]])
                      ELSE Err
           IN  /\ call' = ParseCall("load_translation_from_fs", call.value, exists /\ bad = {})
               /\ ret' = load_translation_from_fs(dir)
    /\ UNCHANGED <<i18n, views>>

InitParse ==
    /\ i18n = None
    /\ views = <<>>
    /\ \E value \in RawTrees : call = ParseCall("input", value, TRUE)
    /\ ret = <<>>

NextParse == ParseTranslationValue \/ LoadBundledData \/ LoadTranslationFromFs

SpecParse == InitParse /\ [][NextParse]_vars

\* ---------------------------------------------------------------- substitution alone

InitSubst ==
    /\ i18n = None
    /\ views = <<>>
    /\ \E template \in Templates, args \in ArgLists :
           call = Call("input", 0, "", template, args, 0)
    /\ ret = <<>>

ReplacePlaceholders ==
    /\ call.op = "input"
    /\ call' = [call EXCEPT !.op = "replace_placeholders"]
    /\ ret' = replace_placeholders(call.text, call.args)
    /\ UNCHANGED <<i18n, views>>

NextSubst == ReplacePlaceholders

SpecSubst == InitSubst /\ [][NextSubst]_vars

\* ---------------------------------------------------------------- what the claims speak of

\* A placeholder occurrence of s: positions i..e-1 hold "{{", word characters
\* only, then "}}".  Two occurrences never overlap.
IsOccurrence(s, i, e) ==
    /\ e >= i + 4
    /\ s[i] = "{" /\ s[i + 1] = "{"
    /\ s[e - 2] = "}" /\ s[e - 1] = "}"
    /\ \A j \in (i + 2)..(e - 3) : WordChar(s[j])

Occurrences(s) ==
    { o \in (1..Len(s)) \X (1..(Len(s) + 1)) : IsOccurrence(s, o[1], o[2]) }

PlaceholderCount(s) == Cardinality(Occurrences(s))

\* The n-th occurrence from the left, n in 1..PlaceholderCount(s).
NthOccurrence(s, n) ==
    CHOOSE o \in Occurrences(s) :
        Cardinality({ q \in Occurrences(s) : q[1] < o[1] }) = n - 1

\* The n-th literal segment, n in 0..PlaceholderCount(s): the text between the
\* n-th occurrence and the next one (or the ends of s).
Segment(s, n) ==
    LET first == IF n = 0 THEN 1 ELSE NthOccurrence(s, n)[2]
        last  == IF n = PlaceholderCount(s) THEN Len(s) ELSE NthOccurrence(s, n + 1)[1] - 1
    IN  SubSeq(s, first, last)

\* Positional substitution: the segments in order, the n-th gap holding the
\* n-th argument when there is one and nothing otherwise.
RECURSIVE PositionalFrom(_, _, _)
PositionalFrom(s, args, n) ==
    Segment(s, n) \o
    (IF n < PlaceholderCount(s)
     THEN (IF n + 1 <= Len(args) THEN args[n + 1] ELSE <<>>) \o PositionalFrom(s, args, n + 1)
     ELSE <<>>)

Positional(s, args) == PositionalFrom(s, args, 0)

\* The two tables of the view the last call was made on or opened.
CurrentTable == views[call.view].file_traductions

FallbackTable == views[call.view].fallback_traduction

HoldsText(table, k) == k \in DOMAIN table /\ table[k].tag = "Text"

HoldsVariants(table, k) == k \in DOMAIN table /\ table[k].tag = "Map"

HoldsVariant(table, k, vk) == HoldsVariants(table, k) /\ vk \in DOMAIN table[k].m

\* The variant string for vk: the current table's, else the fallback table's.
VariantOf(k, vk) ==
    IF HoldsVariant(CurrentTable, k, vk) THEN CurrentTable[k].m[vk] ELSE FallbackTable[k].m[vk]

\* The plural result built from a variant string for a count.
BuiltFrom(template, n) == replace_placeholders(template, << to_string(n) >>)

\* The category table of the specification.
Category(n) ==
    IF n = 0 THEN zero ELSE IF n = 1 THEN one ELSE IF n = 2 THEN two
    ELSE IF n \in 3..10 THEN few ELSE many

\* The category keys the cascade may choose for a count after the exact key.
CascadeCategories(n) == { Category(n), IF n = 1 THEN one ELSE other, many }

Numerals == { to_string(n) : n \in 0..MaxCount }

\* The languages available_languages() lists.
Available == { i18n.v.locale_folders_list[n] : n \in 1..Len(i18n.v.locale_folders_list) }

Setters == {"set_lang", "set_lang_i18n", "set_fallback_lang"}

SyntheticTable == [k \in {"error"} |-> Text(TranslationNotFound)]

\* The store's table for (language, namespace), or the synthetic table.
StoreTable(lang, ns) ==
    LET langs == i18n.v.translations.langs
    IN  IF lang \in DOMAIN langs /\ ns \in DOMAIN langs[lang] THEN langs[lang][ns]
        ELSE SyntheticTable

\* ---------------------------------------------------------------- claims

\* C1: t(k) returns the current table's string when the current table holds k
\* as Text; otherwise the fallback table's string when the fallback table holds
\* k as Text; otherwise exactly "Missing translation"; the string is unmodified.
InvC1 ==
    call.op = "t" =>
        ret = IF HoldsText(CurrentTable, call.key) THEN CurrentTable[call.key].s
              ELSE IF HoldsText(FallbackTable, call.key) THEN FallbackTable[call.key].s
              ELSE MissingTranslation

\* t found the key as Variants in the current table and returned the fallback
\* table's Text, placeholder and all.
WitC1 ==
    /\ call.op = "t"
    /\ HoldsVariants(CurrentTable, call.key)
    /\ HoldsText(FallbackTable, call.key)
    /\ ret = HelloName

\* C2: with more arguments than placeholders, the result of placeholder
\* substitution equals the result with only the first p arguments, p the
\* number of placeholders of the template.
CexC2 ==
    (call.op = "replace_placeholders" /\ Len(call.args) > PlaceholderCount(call.text)) =>
        ret = replace_placeholders(call.text, SubSeq(call.args, 1, PlaceholderCount(call.text)))

\* The view opened on "ui" in the end-to-end scenario: the scenario store,
\* current language "fr", fallback language "en".
InScenario ==
    /\ i18n.some
    /\ i18n.v.translations.langs = ScenarioLangs
    /\ i18n.v.current_lang = "fr"
    /\ i18n.v.fallback_lang = "en"
    /\ call.view \in 1..Len(views)
    /\ views[call.view] = translation(i18n.v, "ui")

HelloBob == <<"H", "e", "l", "l", "o", " ", "B", "o", "b">>

SevenItems == <<"7", " ", "i", "t", "e", "m", "s">>

\* C3: in the end-to-end scenario t_with_arg("greeting", ["Bob"]) = "Hello Bob",
\* t_with_plural("items", 1) = "One item" and t_with_plural("items", 7) = "7 items".
CexC3 ==
    InScenario =>
        /\ (call.op = "t_with_arg" /\ call.key = "greeting" /\ call.args = << Bob >>)
               => ret = HelloBob
        /\ (call.op = "t_with_plural" /\ call.key = "items" /\ call.count = 1)
               => ret = OneItem
        /\ (call.op = "t_with_plural" /\ call.key = "items" /\ call.count = 7)
               => ret = SevenItems

\* C4: with fewer arguments than placeholders, the result is the template's
\* literal segments in order, the i-th argument in the i-th gap for i <= n and
\* nothing in the remaining gaps.
InvC4 ==
    (call.op = "replace_placeholders" /\ Len(call.args) < PlaceholderCount(call.text)) =>
        ret = Positional(call.text, call.args)

\* Three placeholders and one argument: the last two placeholders vanish.
WitC4 ==
    /\ call.op = "replace_placeholders"
    /\ PlaceholderCount(call.text) = 3
    /\ Len(call.args) = 1
    /\ ret = call.args[1]

\* C5: when a Variants value found for the key holds both the numeral of the
\* count and a category key the cascade would otherwise choose, t_with_plural
\* builds its result from the exact-count variant, never from the category one.
InvC5 ==
    call.op = "t_with_plural" =>
        \A table \in {CurrentTable, FallbackTable} :
            \A c \in CascadeCategories(call.count) :
                ( /\ HoldsVariant(table, call.key, to_string(call.count))
                  /\ HoldsVariant(table, call.key, c) )
                => /\ ret = BuiltFrom(VariantOf(call.key, to_string(call.count)), call.count)
                   /\ ret # BuiltFrom(table[call.key].m[c], call.count)

\* Count 10 on a current table holding both "10" and "few".
WitC5 ==
    /\ call.op = "t_with_plural"
    /\ call.count = 10
    /\ HoldsVariant(CurrentTable, call.key, to_string(10))
    /\ HoldsVariant(CurrentTable, call.key, few)
    /\ ret = BuiltFrom(CurrentTable[call.key].m[to_string(10)], 10)

\* No table of the view holds a numeral as a variant key under k.
NoExactKeys(k) ==
    \A table \in {CurrentTable, FallbackTable} :
        HoldsVariants(table, k) => DOMAIN table[k].m \cap Numerals = {}

\* C6: with category variants only and the relevant category present,
\* t_with_plural selects "zero" for 0, "one" for 1, "two" for 2, "few" for
\* 3..10 and "many" from 11 on.
InvC6 ==
    ( /\ call.op = "t_with_plural"
      /\ NoExactKeys(call.key)
      /\ \/ HoldsVariant(CurrentTable, call.key, Category(call.count))
         \/ HoldsVariant(FallbackTable, call.key, Category(call.count)) )
    => ret = BuiltFrom(VariantOf(call.key, Category(call.count)), call.count)

\* Count 10 on a current table holding "few" and "many": "few" is selected.
WitC6 ==
    /\ call.op = "t_with_plural"
    /\ call.count = 10
    /\ NoExactKeys(call.key)
    /\ HoldsVariant(CurrentTable, call.key, few)
    /\ HoldsVariant(CurrentTable, call.key, many)
    /\ ret = BuiltFrom(CurrentTable[call.key].m[few], 10)

\* C7: for a key in neither table, t and t_with_arg return exactly "Missing
\* translation", t_with_gender and t_with_gender_and_arg exactly "Missing gender
\* translation" and t_with_plural exactly "Missing plural translation".
CexC7 ==
    (call.view \in 1..Len(views) /\ call.key \notin DOMAIN CurrentTable \cup DOMAIN FallbackTable) =>
        /\ call.op \in {"t", "t_with_arg"} => ret = MissingTranslation
        /\ call.op \in {"t_with_gender", "t_with_gender_and_arg"} => ret = MissingGenderTranslation
        /\ call.op = "t_with_plural" => ret = MissingPluralTranslation

\* C8: a setter called with a code that is not an available language changes
\* nothing: the I18n resource (languages, list, store) and get_lang() stay.
PropC8 ==
    [][ (call'.op \in Setters /\ i18n.some /\ call'.key \notin Available) =>
            /\ i18n' = i18n
            /\ get_lang(i18n'.v) = get_lang(i18n.v) ]_vars

\* A setter was called with a code that is not available, on a current
\* language that differs from it.
WitC8 ==
    /\ call.op \in Setters
    /\ i18n.some
    /\ call.key \notin Available
    /\ i18n.v.current_lang # call.key
    /\ i18n.v.fallback_lang # call.key

\* Every answer of a view: the accessors over the sampled keys and inputs.
Answers(view) ==
    [k \in SystemKeys |->
        << t(view, k), t_with_arg(view, k, << Bob >>),
           [n \in SystemCounts |-> t_with_plural(view, k, n)],
           t_with_gender(view, k, female),
           t_with_gender_and_arg(view, k, female, << Bob >>) >>]

\* C9: a language switch leaves the answers of every open view as they were,
\* and a view opened afterwards holds the tables of the languages selected at
\* that moment.
PropC9 ==
    [][ /\ call'.op \in Setters =>
              /\ Len(views') = Len(views)
              /\ \A i \in 1..Len(views) :
                     views'[i] = views[i] \/ Answers(views'[i]) = Answers(views[i])
        /\ (call'.op = "translation" /\ Len(views') = Len(views) + 1) =>
              /\ views'[Len(views')].file_traductions
                     = StoreTable(i18n.v.current_lang, call'.key)
              /\ views'[Len(views')].fallback_traduction
                     = StoreTable(i18n.v.fallback_lang, call'.key) ]_vars

\* Two views on "ui", the first opened under another current language: the
\* first still answers from its own table, the second from the new one.
WitC9 ==
    /\ i18n.some
    /\ Len(views) = 2
    /\ call.op = "translation" /\ call.key = "ui"
    /\ views[2] = translation(i18n.v, "ui")
    /\ \E c \in Codes : c # i18n.v.current_lang
           /\ contains(i18n.v.locale_folders_list, i18n.v.current_lang)
           /\ views[1] = translation([i18n.v EXCEPT !.current_lang = c], "ui")
    /\ t(views[1], "greeting") # t(views[2], "greeting")

\* C10: each side of an opened view is the store's table for its language and
\* the namespace when that exists and the synthetic table otherwise, whatever
\* the other side is; with both missing t("error") = "Translation not found".
InvC10 ==
    call.op = "translation" =>
        /\ CurrentTable = StoreTable(i18n.v.current_lang, call.key)
        /\ FallbackTable = StoreTable(i18n.v.fallback_lang, call.key)
        /\ (CurrentTable = SyntheticTable /\ FallbackTable = SyntheticTable)
               => t(views[call.view], "error") = TranslationNotFound

\* The namespace is missing in the current language alone: the fallback side
\* is the store's real table.
WitC10 ==
    /\ call.op = "translation"
    /\ CurrentTable = SyntheticTable
    /\ FallbackTable # SyntheticTable
    /\ FallbackTable = i18n.v.translations.langs[i18n.v.fallback_lang][call.key]

\* Some table of the view holds the variant key vk under k.
Held(k, vk) == HoldsVariant(CurrentTable, k, vk) \/ HoldsVariant(FallbackTable, k, vk)

\* C11: t_with_gender returns the current table's variant string when the
\* current table holds the key as Variants containing the gender, otherwise
\* the fallback table's under the same condition, otherwise exactly "Missing
\* gender translation", whatever numeral or category entries the value holds.
InvC11 ==
    call.op = "t_with_gender" =>
        ret = IF HoldsVariant(CurrentTable, call.key, call.text)
              THEN CurrentTable[call.key].m[call.text]
              ELSE IF HoldsVariant(FallbackTable, call.key, call.text)
              THEN FallbackTable[call.key].m[call.text]
              ELSE MissingGenderTranslation

\* The current table holds the key as Variants with a numeral and no
\* "female"; the fallback table's "female" string is returned.
WitC11 ==
    /\ call.op = "t_with_gender"
    /\ call.text = female
    /\ HoldsVariants(CurrentTable, call.key)
    /\ DOMAIN CurrentTable[call.key].m \cap Numerals # {}
    /\ HoldsVariant(FallbackTable, call.key, female)
    /\ ret = FallbackTable[call.key].m[female]

\* The keys of the four cascade steps for a count, in order.
CascadeSteps(n) == << to_string(n), Category(n), IF n = 1 THEN one ELSE other, many >>

\* C14: each cascade step is tried on the current table and then on the
\* fallback table before the next step: a variant of an earlier step held by
\* the fallback table alone is chosen over a later step's variant held by the
\* current table.
InvC14 ==
    call.op = "t_with_plural" =>
        \A a \in 1..4 : \A b \in (a + 1)..4 :
            LET steps == CascadeSteps(call.count)
            IN  ( /\ \A e \in 1..(a - 1) : ~Held(call.key, steps[e])
                  /\ ~HoldsVariant(CurrentTable, call.key, steps[a])
                  /\ HoldsVariant(FallbackTable, call.key, steps[a])
                  /\ HoldsVariant(CurrentTable, call.key, steps[b]) )
                => ret = BuiltFrom(FallbackTable[call.key].m[steps[a]], call.count)

\* The numeral of the count is in the fallback table alone and "few" in the
\* current table: the fallback table's exact-count variant is chosen.
WitC14 ==
    /\ call.op = "t_with_plural"
    /\ call.count = 3
    /\ ~HoldsVariant(CurrentTable, call.key, to_string(3))
    /\ HoldsVariant(FallbackTable, call.key, to_string(3))
    /\ HoldsVariant(CurrentTable, call.key, few)
    /\ ret = BuiltFrom(FallbackTable[call.key].m[to_string(3)], 3)

\* C15: when neither table holds the numeral or the mapped category,
\* t_with_plural selects "one" for count 1 and "other" for every other count;
\* when that misses too, "many"; when that misses too, it returns "Missing
\* plural translation".
InvC15 ==
    ( /\ call.op = "t_with_plural"
      /\ ~Held(call.key, to_string(call.count))
      /\ ~Held(call.key, Category(call.count)) )
    => LET basic == IF call.count = 1 THEN one ELSE other
       IN  ret = IF Held(call.key, basic) THEN BuiltFrom(VariantOf(call.key, basic), call.count)
                 ELSE IF Held(call.key, many) THEN BuiltFrom(VariantOf(call.key, many), call.count)
                 ELSE MissingPluralTranslation

\* Count 3 on tables holding "many" alone: the last step selects it.
WitC15 ==
    /\ call.op = "t_with_plural"
    /\ call.count = 3
    /\ ~Held(call.key, to_string(3)) /\ ~Held(call.key, few) /\ ~Held(call.key, other)
    /\ HoldsVariant(FallbackTable, call.key, many)
    /\ ret = BuiltFrom(FallbackTable[call.key].m[many], 3)

\* C17: every step leaves current_lang as it was or sets it to an available
\* language, and the same for fallback_lang, so each is its configured value
\* or an available language; set_lang and set_lang_i18n leave fallback_lang,
\* set_fallback_lang leaves current_lang; the language list and the store
\* never change.
PropC17 ==
    [][ i18n.some =>
            /\ i18n'.some
            /\ i18n'.v.locale_folders_list = i18n.v.locale_folders_list
            /\ i18n'.v.translations = i18n.v.translations
            /\ \/ i18n'.v.current_lang = i18n.v.current_lang
               \/ i18n'.v.current_lang \in Available
            /\ \/ i18n'.v.fallback_lang = i18n.v.fallback_lang
               \/ i18n'.v.fallback_lang \in Available
            /\ call'.op \in {"set_lang", "set_lang_i18n"}
                   => i18n'.v.fallback_lang = i18n.v.fallback_lang
            /\ call'.op = "set_fallback_lang"
                   => i18n'.v.current_lang = i18n.v.current_lang
            /\ call'.op \notin Setters => i18n' = i18n ]_vars

\* set_fallback_lang has set an available fallback language while the
\* current language is still a configured code that is not available.
WitC17 ==
    /\ i18n.some
    /\ call.op = "set_fallback_lang"
    /\ call.key \in Available
    /\ i18n.v.fallback_lang = call.key
    /\ i18n.v.current_lang \notin Available
    /\ i18n.v.current_lang # call.key

\* The store and language list of create_error_translations, as the
\* specification gives them.
DegenerateLangs ==
    [l \in {"en"} |-> [f \in {"error"} |-> [k \in {"error"} |-> Text(TranslationError)]]]

\* The loader that ends up selected reports failure: the bundled loader when
\* it is selected (by the config, or on wasm32 always), the filesystem loader
\* when it is selected or when empty bundled data redirects to "messages".
LoaderFails(config, env) ==
    IF config.use_bundled_translations \/ env.wasm32
    THEN \/ ~env.bundled.ok
         \/ /\ env.bundled.ok /\ env.bundled.v = EmptyMap
            /\ ~env.wasm32
            /\ ~env.fs["messages"].ok
    ELSE ~env.fs[config.messages_folder].ok

\* C12: when the selected loader reports failure, the store is exactly the
\* degenerate table en / error / error -> "Translation Error" and
\* available_languages() is exactly ["en"]; from_world still returns.
InvC12 ==
    (call.op = "from_world" /\ LoaderFails(call.config, call.env)) =>
        /\ call.status # "overflow"
        /\ call.status = "returned" =>
              /\ i18n.some
              /\ i18n.v.translations.langs = DegenerateLangs
              /\ available_languages(i18n.v) = <<"en">>

\* Empty bundled data redirected the load to the "messages" folder, which
\* failed: from_world returned the degenerate store.
WitC12 ==
    /\ call.op = "from_world"
    /\ call.status = "returned"
    /\ call.config.use_bundled_translations
    /\ call.env.bundled = Ok(EmptyMap)
    /\ ~call.env.fs["messages"].ok
    /\ i18n.v.translations.langs = DegenerateLangs

\* C16: for every config, loader outcome and build target from_world returns
\* a store, the loaded tables or the degenerate error store; it never runs
\* out of stack and never stops short of returning.
CexC16 ==
    call.op = "from_world" =>
        /\ call.status # "overflow"
        /\ call.status = "returned" \/ ENABLED NextLoad
        /\ call.status = "returned" =>
              /\ i18n.some
              /\ \/ i18n.v.translations.langs = DegenerateLangs
                 \/ i18n.v.translations.langs \in
                        { r.v : r \in { x \in {call.env.bundled} \cup
                                          { call.env.fs[f] : f \in Folders } : x.ok } }

\* The keys of a raw value when it is an object, none otherwise.
RawKeys(v) == IF v.kind = "object" THEN DOMAIN v.m ELSE {}

ParseOps == {"parse_translation_value", "load_bundled_data", "load_translation_from_fs"}

\* The leaf under key k of the raw namespace object sections is classified
\* into table as the specification says.
Classified(sections, table, k) ==
    LET leaf == sections.m[k]
    IN  CASE leaf.kind = "string" ->
                 k \in DOMAIN table /\ table[k] = Text(leaf.s)
          [] leaf.kind = "object" ->
                 /\ k \in DOMAIN table
                 /\ table[k].tag = "Map"
                 /\ DOMAIN table[k].m = { nk \in DOMAIN leaf.m : leaf.m[nk].kind = "string" }
                 /\ \A nk \in DOMAIN table[k].m : table[k].m[nk] = leaf.m[nk].s
          [] OTHER -> k \notin DOMAIN table

\* C13: parse_translation_value never fails, the two loads do not fail once
\* the text was read and parsed, and in the tables they yield every string
\* leaf is Text with that string, every object leaf is a Map with exactly its
\* string-valued entries, every other leaf leaves its key absent, and no key
\* is there that the raw namespace lacks.
InvC13 ==
    call.op \in ParseOps =>
        /\ call.op = "parse_translation_value" => ret.ok
        /\ call.read => ret.ok
        /\ (call.read /\ ret.ok) =>
              \A l \in RawKeys(call.value) : \A f \in RawKeys(call.value.m[l]) :
                  LET sections == call.value.m[l].m[f]
                  IN  /\ l \in DOMAIN ret.v
                      /\ f \in DOMAIN ret.v[l]
                      /\ DOMAIN ret.v[l][f] \subseteq RawKeys(sections)
                      /\ \A k \in RawKeys(sections) : Classified(sections, ret.v[l][f], k)

\* A namespace with a number leaf and an object leaf holding a string and a
\* non-string entry was parsed: the number's key is absent and the Map holds
\* the string entry alone.
WitC13 ==
    /\ call.op = "parse_translation_value"
    /\ call.value = JObject([l \in {"en"} |-> JObject([f \in {"ui"} |->
           JObject([k \in {"greeting", "items"} |->
               IF k = "greeting" THEN JNumber(7)
               ELSE JObject([nk \in {one, other} |->
                        IF nk = one THEN JString(OneItem) ELSE JNumber(1)])])])])
    /\ ret.ok
    /\ DOMAIN ret.v["en"]["ui"] = {"items"}
    /\ ret.v["en"]["ui"]["items"] = Map([nk \in {one} |-> OneItem])

====
